---- MODULE Spec2Model ----
(***************************************************************************)
(* Model of log/value.go (Valuer, bindValues, containsValuer, Timestamp,   *)
(* TimestampFormat, TimeFormat) and of the in-memory voyage repository     *)
(* (examples/shipping/inmem/voyageRepository.go).                          *)
(*                                                                         *)
(* Go slices are 0-based; a keyvals slice is a TLA+ sequence whose         *)
(* position p holds the slot of Go index p - 1.  All indices that appear   *)
(* in the model (i, idx) are Go indices.                                   *)
(***************************************************************************)
EXTENDS Integers, Sequences, FiniteSets, TLC

VARIABLES
    template,   \* the keyvals a logging context was built with
    keyvals,    \* the slice handed to bindValues / containsValuer
    prev,       \* the bound keyvals of the previous log event
    orig,       \* keyvals as it was when the running call started
    pc,         \* "start", "bind", "done", "panicked"
    i,          \* loop index of bindValues
    calls,      \* Valuers invoked by the running call: [idx, at]
    failure,    \* the panic bindValues ended with, or NoFailure
    cv,         \* last containsValuer call: [called, ret, arg]
    now,        \* the instant the time source would return
    reads,      \* how often the time source has been read
    invoked,    \* how often a Timestamp/TimestampFormat Valuer was invoked
    event,      \* number of the log event being bound
    callNo,     \* bindValues calls made on the current keyvals
    tf,         \* a TimeFormat value being rendered
    strOut,     \* last result of tf.String()
    txtOut,     \* last result of tf.MarshalText()
    voyages,    \* voyageRepository.voyages
    finds       \* results of the Find calls made so far

vars == <<template, keyvals, prev, orig, pc, i, calls, failure, cv, now,
          reads, invoked, event, callNo, tf, strOut, txtOut, voyages, finds>>

binderVars == <<template, keyvals, prev, orig, pc, i, calls, failure, cv,
                now, reads, invoked, event, callNo>>
formatVars == <<tf, strOut, txtOut>>
repoVars == <<voyages, finds>>

\* ---------------------------------------------------------------- bounds
MaxLen == 6
MaxTime == 2
MaxEvents == 2
MaxCalls == 2
MaxInstant == 75
MaxLayoutLen == 2
MaxFinds == 2

\* ---------------------------------------------------------------- values
Key(n) == [kind |-> "key", n |-> n]
Static == [kind |-> "static"]
Instant(t) == [kind |-> "Time", Time |-> t]
TimeFormat(t, layout) == [kind |-> "TimeFormat", Time |-> t, Layout |-> layout]
PanicValue == [kind |-> "panic", msg |-> "boom"]
NoFailure == [kind |-> "none"]

\* layouts are sequences of layout elements: zero-padded minute, zero-padded
\* second, unpadded second, and the literal ":"
LayoutElems == {"04", "05", "5", ":"}
RFC3339Nano == <<"04", ":", "05">>

\* type Valuer func() interface{}
Timestamp == [kind |-> "Valuer", fn |-> "Timestamp"]
TimestampFormat(layout) == [kind |-> "Valuer", fn |-> "TimestampFormat", Layout |-> layout]
DefaultTimestamp == TimestampFormat(RFC3339Nano)
\* user-written Valuers: one returns another Valuer, one panics
Nested == [kind |-> "Valuer", fn |-> "nested"]
Panics == [kind |-> "Valuer", fn |-> "panics"]

\* the type assertion  keyvals[i].(Valuer)
IsValuer(x) == x.kind = "Valuer"

TimestampAtConstruction(v, clock) ==
    CASE v.fn = "Timestamp" ->
           [val |-> Instant(0), reads |-> 1, panic |-> FALSE]
      [] v.fn = "TimestampFormat" ->
           [val |-> TimeFormat(0, v.Layout), reads |-> 1, panic |-> FALSE]
      [] v.fn = "nested" -> [val |-> Timestamp, reads |-> 0, panic |-> FALSE]
      [] v.fn = "panics" -> [val |-> PanicValue, reads |-> 0, panic |-> TRUE]

\* v(): the value the Valuer returns when the time source stands at clock,
\* how many times it read the time source, and whether it panicked
Invoke(v, clock) ==
    CASE v.fn = "Timestamp" ->
           [val |-> Instant(clock), reads |-> 1, panic |-> FALSE]
      [] v.fn = "TimestampFormat" ->
           [val |-> TimeFormat(clock, v.Layout), reads |-> 1, panic |-> FALSE]
      [] v.fn = "nested" -> [val |-> Timestamp, reads |-> 0, panic |-> FALSE]
      [] v.fn = "panics" -> [val |-> PanicValue, reads |-> 0, panic |-> TRUE]

IsTimeValuer(x) == IsValuer(x) /\ x.fn \in {"Timestamp", "TimestampFormat"}

\* ---------------------------------------------------------------- slices
At(kv, idx) == kv[idx + 1]
Indices(kv) == 0 .. (Len(kv) - 1)
OddIndices(kv) == {idx \in Indices(kv) : idx % 2 = 1}
EvenIndices(kv) == {idx \in Indices(kv) : idx % 2 = 0}

\* the slots a caller may put at Go index idx
SlotsAt(idx) ==
    IF idx % 2 = 0
    THEN {Key(idx \div 2), Timestamp}
    ELSE {Static, Timestamp, DefaultTimestamp, Nested, Panics}

RECURSIVE KeyvalsOfLen(_)
KeyvalsOfLen(n) ==
    IF n = 0 THEN {<<>>}
    ELSE {Append(s, x) : s \in KeyvalsOfLen(n - 1), x \in SlotsAt(n - 1)}

Keyvals == UNION {KeyvalsOfLen(n) : n \in 0 .. MaxLen}

\* ------------------------------------------------------------ bindValues
\* for i := 1
FirstIndex == 1

LoopCondOffByOne(kv, idx) == idx < Len(kv) - 1
\* i < len(keyvals)
LoopCond(kv, idx) == idx < Len(kv)

NextIndexByOne(idx) == idx + 1
\* i += 2
NextIndex(idx) == idx + 2

BindSlotDropped(kv, idx, val) == kv
BindSlotKey(kv, idx, val) == [kv EXCEPT ![idx] = val]
\* keyvals[i] = v()
BindSlot(kv, idx, val) == [kv EXCEPT ![idx + 1] = val]

ContainsValuerFromAny(kv, idx) == \E j \in Indices(kv) : IsValuer(At(kv, j))
RECURSIVE ContainsValuerFrom(_, _)
\* the loop of containsValuer, entered with loop index idx
ContainsValuerFrom(kv, idx) ==
    IF LoopCond(kv, idx)
    THEN IF IsValuer(At(kv, idx)) THEN TRUE
         ELSE ContainsValuerFrom(kv, NextIndex(idx))
    ELSE FALSE

NotCalled == [called |-> FALSE, ret |-> FALSE, arg |-> <<>>]

\* ------------------------------------------------------- binder actions
\* a caller invokes containsValuer(keyvals)
containsValuer ==
    /\ pc \in {"start", "done"}
    /\ ~cv.called
    /\ cv' = [called |-> TRUE, ret |-> ContainsValuerFrom(keyvals, FirstIndex),
               arg |-> keyvals]
    /\ UNCHANGED <<template, keyvals, prev, orig, pc, i, calls, failure, now,
                   reads, invoked, event, callNo>>
    /\ UNCHANGED <<formatVars, repoVars>>

\* a caller invokes bindValues(keyvals): loop initialisation
bindValues ==
    /\ pc \in {"start", "done"}
    /\ callNo < MaxCalls
    /\ pc' = "bind"
    /\ i' = FirstIndex
    /\ orig' = keyvals
    /\ calls' = <<>>
    /\ callNo' = callNo + 1
    /\ cv' = NotCalled
    /\ UNCHANGED <<template, keyvals, prev, failure, now, reads, invoked, event>>
    /\ UNCHANGED <<formatVars, repoVars>>

\* one iteration whose slot is not a Valuer
bindSkip ==
    /\ pc = "bind"
    /\ LoopCond(keyvals, i)
    /\ ~IsValuer(At(keyvals, i))
    /\ i' = NextIndex(i)
    /\ UNCHANGED <<template, keyvals, prev, orig, pc, calls, failure, cv, now,
                   reads, invoked, event, callNo>>
    /\ UNCHANGED <<formatVars, repoVars>>

\* one iteration whose slot is a Valuer that returns
bindInvoke ==
    /\ pc = "bind"
    /\ LoopCond(keyvals, i)
    /\ IsValuer(At(keyvals, i))
    /\ LET r == Invoke(At(keyvals, i), now) IN
         /\ ~r.panic
         /\ keyvals' = BindSlot(keyvals, i, r.val)
         /\ reads' = reads + r.reads
    /\ calls' = Append(calls, [idx |-> i, at |-> now])
    /\ invoked' = invoked + (IF IsTimeValuer(At(keyvals, i)) THEN 1 ELSE 0)
    /\ i' = NextIndex(i)
    /\ UNCHANGED <<template, prev, orig, pc, failure, cv, now, event, callNo>>
    /\ UNCHANGED <<formatVars, repoVars>>

\* one iteration whose slot is a Valuer that panics: the panic unwinds
\* bindValues before the assignment to keyvals[i]
bindPanic ==
    /\ pc = "bind"
    /\ LoopCond(keyvals, i)
    /\ IsValuer(At(keyvals, i))
    /\ LET r == Invoke(At(keyvals, i), now) IN
         /\ r.panic
         /\ failure' = r.val
         /\ reads' = reads + r.reads
    /\ calls' = Append(calls, [idx |-> i, at |-> now])
    /\ pc' = "panicked"
    /\ UNCHANGED <<template, keyvals, prev, orig, i, cv, now, invoked, event,
                   callNo>>
    /\ UNCHANGED <<formatVars, repoVars>>

\* the loop condition fails and bindValues returns
bindReturn ==
    /\ pc = "bind"
    /\ ~LoopCond(keyvals, i)
    /\ pc' = "done"
    /\ UNCHANGED <<template, keyvals, prev, orig, i, calls, failure, cv, now,
                   reads, invoked, event, callNo>>
    /\ UNCHANGED <<formatVars, repoVars>>

\* the time source (t func() time.Time) moves on
Tick ==
    /\ now < MaxTime
    /\ now' = now + 1
    /\ UNCHANGED <<template, keyvals, prev, orig, pc, i, calls, failure, cv,
                   reads, invoked, event, callNo>>
    /\ UNCHANGED <<formatVars, repoVars>>

\* the next log event: the Valuers of the context are evaluated again, on a
\* fresh copy of the context's keyvals
NewEvent ==
    /\ pc \in {"done", "panicked"}
    /\ event < MaxEvents
    /\ event' = event + 1
    /\ prev' = keyvals
    /\ keyvals' = template
    /\ orig' = template
    /\ pc' = "start"
    /\ i' = 0
    /\ calls' = <<>>
    /\ failure' = NoFailure
    /\ callNo' = 0
    /\ cv' = NotCalled
    /\ UNCHANGED <<template, now, reads, invoked>>
    /\ UNCHANGED <<formatVars, repoVars>>

\* ------------------------------------------------------------ TimeFormat
Digit(d) == <<"0", "1", "2", "3", "4", "5", "6", "7", "8", "9">>[d + 1]
Pad2(n) == <<Digit((n \div 10) % 10), Digit(n % 10)>>
Unpadded(n) == IF n < 10 THEN <<Digit(n)>> ELSE Pad2(n)

\* the text one layout element stands for at instant t (seconds)
Field(t, elem) ==
    CASE elem = "04" -> Pad2((t \div 60) % 60)
      [] elem = "05" -> Pad2(t % 60)
      [] elem = "5" -> Unpadded(t % 60)
      [] OTHER -> <<elem>>

RECURSIVE AppendFormat(_, _, _)
\* t.AppendFormat(b, layout): the formatted time appended to b
AppendFormat(b, t, layout) ==
    IF layout = <<>> THEN b
    ELSE AppendFormat(b \o Field(t, Head(layout)), t, Tail(layout))

\* t.Format(layout): the formatted time as a string
Format(t, layout) == AppendFormat(<<>>, t, layout)

MakeBytesFilled(length, capacity) == [j \in 1 .. capacity |-> "NUL"]
\* make([]byte, length, capacity): length zero bytes
MakeBytes(length, capacity) == [j \in 1 .. length |-> "NUL"]

\* func (tf TimeFormat) String() string
String(x) == Format(x.Time, x.Layout)

\* func (tf TimeFormat) MarshalText() (text []byte, err error)
MarshalText(x) ==
    [text |-> AppendFormat(MakeBytes(0, Len(x.Layout) + 10), x.Time, x.Layout),
     err |-> "nil"]

Unset == <<"unset">>
UnsetText == [text |-> Unset, err |-> "unset"]

RECURSIVE LayoutsOfLen(_)
LayoutsOfLen(n) ==
    IF n = 0 THEN {<<>>}
    ELSE {Append(s, x) : s \in LayoutsOfLen(n - 1), x \in LayoutElems}

Layouts == UNION {LayoutsOfLen(n) : n \in 0 .. MaxLayoutLen} \cup {RFC3339Nano}

\* a caller renders tf with String(); the receiver is passed by value
CallString ==
    /\ strOut' = String(tf)
    /\ UNCHANGED <<tf, txtOut>>
    /\ UNCHANGED <<binderVars, repoVars>>

\* a caller renders tf with MarshalText(); the receiver is passed by value
CallMarshalText ==
    /\ txtOut' = MarshalText(tf)
    /\ UNCHANGED <<tf, strOut>>
    /\ UNCHANGED <<binderVars, repoVars>>

\* ------------------------------------------------------ voyageRepository
V100 == [Number |-> "V100"]
V300 == [Number |-> "V300"]
V400 == [Number |-> "V400"]
V0100S == [Number |-> "0100S"]
V0200T == [Number |-> "0200T"]
V0300A == [Number |-> "0300A"]
V0301S == [Number |-> "0301S"]
V0400S == [Number |-> "0400S"]
SampleVoyages == {V100, V300, V400, V0100S, V0200T, V0300A, V0301S, V0400S}

ErrUnknown == "unknown voyage"
NilVoyage == [nil |-> TRUE]

\* voyage numbers a caller may ask for
VoyageNumbers == {v.Number : v \in SampleVoyages} \cup {"V999", ""}

\* r.voyages[number] = v
Store(m, number, v) ==
    [n \in DOMAIN m \cup {number} |-> IF n = number THEN v ELSE m[n]]

\* make(map[voyage.Number]*voyage.Voyage)
EmptyMap == [n \in {} |-> NilVoyage]

RECURSIVE StoreAll(_, _)
StoreAll(m, vs) ==
    IF vs = <<>> THEN m
    ELSE StoreAll(Store(m, Head(vs).Number, Head(vs)), Tail(vs))

NewVoyageRepositoryMisfiled ==
    Store(StoreAll(EmptyMap, <<V100, V300, V400, V0100S, V0200T, V0300A,
                               V0301S, V0400S>>), V100.Number, V300)
\* func NewVoyageRepository() voyage.Repository
NewVoyageRepository ==
    StoreAll(EmptyMap, <<V100, V300, V400, V0100S, V0200T, V0300A, V0301S,
                         V0400S>>)

FindAlwaysFound(m, number) ==
    IF number \in DOMAIN m THEN [v |-> m[number], err |-> "nil"]
    ELSE [v |-> V100, err |-> "nil"]
\* func (r *voyageRepository) Find(voyageNumber) (*voyage.Voyage, error)
Find(m, number) ==
    IF number \in DOMAIN m THEN [v |-> m[number], err |-> "nil"]
    ELSE [v |-> NilVoyage, err |-> ErrUnknown]

\* a caller invokes r.Find(number)
CallFind ==
    /\ Len(finds) < MaxFinds
    /\ \E number \in VoyageNumbers :
         finds' = Append(finds, [number |-> number, ret |-> Find(voyages, number)])
    /\ UNCHANGED voyages
    /\ UNCHANGED <<binderVars, formatVars>>

\* ------------------------------------------------------- specifications
BinderIdle ==
    /\ template = <<>>
    /\ keyvals = <<>>
    /\ prev = <<>>
    /\ orig = <<>>
    /\ pc = "start"
    /\ i = 0
    /\ calls = <<>>
    /\ failure = NoFailure
    /\ cv = NotCalled
    /\ now = 0
    /\ reads = 0
    /\ invoked = 0
    /\ event = 1
    /\ callNo = 0

FormatIdle ==
    /\ tf = TimeFormat(0, <<>>)
    /\ strOut = Unset
    /\ txtOut = UnsetText

RepoIdle ==
    /\ voyages = EmptyMap
    /\ finds = <<>>

InitFormat ==
    /\ tf \in {TimeFormat(t, l) : t \in 0 .. MaxInstant, l \in Layouts}
    /\ strOut = Unset
    /\ txtOut = UnsetText
    /\ BinderIdle
    /\ RepoIdle

NextFormat == CallString \/ CallMarshalText

SpecFormat == InitFormat /\ [][NextFormat]_vars

InitRepo ==
    /\ voyages = NewVoyageRepository
    /\ finds = <<>>
    /\ BinderIdle
    /\ FormatIdle

NextRepo == CallFind

SpecRepo == InitRepo /\ [][NextRepo]_vars

Init ==
    /\ template \in Keyvals
    /\ keyvals = template
    /\ prev = <<>>
    /\ orig = template
    /\ pc = "start"
    /\ i = 0
    /\ calls = <<>>
    /\ failure = NoFailure
    /\ cv = NotCalled
    /\ now = 0
    /\ reads = 0
    /\ invoked = 0
    /\ event = 1
    /\ callNo = 0
    /\ FormatIdle
    /\ RepoIdle

Next ==
    \/ containsValuer
    \/ bindValues
    \/ bindSkip
    \/ bindInvoke
    \/ bindPanic
    \/ bindReturn
    \/ Tick
    \/ NewEvent

Spec == Init /\ [][Next]_vars

\* ------------------------------------------------------------ properties
OddValuerIndices(kv) == {idx \in OddIndices(kv) : IsValuer(At(kv, idx))}
CallIdx == {calls[k].idx : k \in 1 .. Len(calls)}
InCall == pc \in {"bind", "done", "panicked"}
\* the calls of the running bindValues whose Valuer has returned
Returned ==
    {k \in 1 .. Len(calls) : k < Len(calls) \/ pc # "panicked"}
\* the value slot idx holds the result of invoking the Valuer it held
Resolved(idx) ==
    \E k \in Returned :
        /\ calls[k].idx = idx
        /\ At(keyvals, idx) = Invoke(At(orig, idx), calls[k].at).val
ReturnsValuer(v) == IsValuer(v) /\ IsValuer(Invoke(v, 0).val)

\* C1 as stated: after bindValues returns no value slot holds a Valuer, and a
\* second call on the same sequence changes nothing and invokes nothing,
\* whatever the Valuers return.
C1_NoValuerLeft ==
    pc = "done" =>
        /\ OddValuerIndices(keyvals) = {}
        /\ callNo >= 2 => (keyvals = orig /\ calls = <<>>)

\* C1 amended: after bindValues returns every value slot that held a Valuer
\* holds what that Valuer returned; a value slot holds a Valuer afterwards
\* exactly when the Valuer it held returned a Valuer; when no Valuer of the
\* sequence returns a Valuer none is left and a second call changes nothing
\* and invokes nothing.
C1_SingleLevelResolution ==
    pc = "done" =>
        /\ \A idx \in OddValuerIndices(orig) : Resolved(idx)
        /\ OddValuerIndices(keyvals) =
               {idx \in OddIndices(orig) : ReturnsValuer(At(orig, idx))}
        /\ (\A idx \in OddIndices(template) : ~ReturnsValuer(At(template, idx)))
               => /\ OddValuerIndices(keyvals) = {}
                  /\ callNo >= 2 => (keyvals = orig /\ calls = <<>>)

C1_Witness ==
    /\ pc = "done"
    /\ callNo = 1
    /\ Len(orig) = 4
    /\ At(orig, 1) = Nested
    /\ At(orig, 3) = Timestamp
    /\ At(keyvals, 1) = Timestamp
    /\ At(keyvals, 3) = Instant(1)

\* C2: the time source is not read when a Timestamp or TimestampFormat
\* Valuer is built, it is read once per invocation of the Valuer, and the
\* slot receives the instant of that invocation: unmodified for Timestamp,
\* paired with the construction-time layout for TimestampFormat.
C2_TimeReadAtInvocation ==
    /\ reads = invoked
    /\ (event = 1 /\ callNo = 0) => reads = 0
    /\ \A k \in Returned :
         LET v == At(orig, calls[k].idx)
             slot == At(keyvals, calls[k].idx)
         IN  /\ v = Timestamp => slot = Instant(calls[k].at)
             /\ (IsValuer(v) /\ v.fn = "TimestampFormat")
                   => slot = TimeFormat(calls[k].at, v.Layout)

C2_Witness ==
    /\ event = 2
    /\ pc = "done"
    /\ callNo = 1
    /\ Len(template) = 4
    /\ At(template, 1) = Timestamp
    /\ At(template, 3) = DefaultTimestamp
    /\ At(prev, 1) = Instant(0)
    /\ At(prev, 3) = TimeFormat(1, RFC3339Nano)
    /\ At(keyvals, 1) = Instant(2)
    /\ At(keyvals, 3) = TimeFormat(2, RFC3339Nano)
    /\ reads = 4

\* C3: containsValuer returns true exactly when some odd-index slot holds a
\* Valuer, and neither modifies the sequence nor invokes a Valuer.
C3_ContainsValuerIff ==
    /\ [](cv.called =>
            /\ cv.ret = (OddValuerIndices(cv.arg) # {})
            /\ keyvals = cv.arg)
    /\ [][(cv'.called /\ ~cv.called) =>
            /\ keyvals' = keyvals
            /\ calls' = calls
            /\ invoked' = invoked
            /\ reads' = reads]_vars

C3_Witness ==
    /\ cv.called
    /\ cv.ret
    /\ Len(cv.arg) = 4
    /\ At(cv.arg, 0) = Timestamp
    /\ At(cv.arg, 1) = Static
    /\ At(cv.arg, 3) = Panics

\* C4: on a sequence whose odd-index slots hold no Valuer, bindValues leaves
\* the sequence as it was and invokes nothing.
C4_NoValuerNoChange ==
    (InCall /\ OddValuerIndices(orig) = {}) =>
        /\ keyvals = orig
        /\ calls = <<>>
        /\ pc # "panicked"

C4_Witness ==
    /\ pc = "done"
    /\ Len(orig) = 5
    /\ At(orig, 1) = Static
    /\ At(orig, 2) = Timestamp
    /\ At(orig, 3) = Static
    /\ keyvals = orig

\* C5: throughout bindValues the length and every key slot stay as they
\* were, a value slot that held no Valuer keeps its content, and a rewritten
\* slot holds the result of the Valuer it held.
C5_OnlyValuerSlotsRewritten ==
    InCall =>
        /\ Len(keyvals) = Len(orig)
        /\ \A idx \in EvenIndices(orig) : At(keyvals, idx) = At(orig, idx)
        /\ \A idx \in OddIndices(orig) :
             \/ At(keyvals, idx) = At(orig, idx)
             \/ IsValuer(At(orig, idx)) /\ Resolved(idx)

C5_Witness ==
    /\ pc = "bind"
    /\ i = 3
    /\ Len(orig) = 6
    /\ At(orig, 1) = DefaultTimestamp
    /\ At(keyvals, 1) = TimeFormat(1, RFC3339Nano)
    /\ At(orig, 3) = Nested
    /\ At(keyvals, 3) = Nested
    /\ At(keyvals, 0) = Key(0)

\* C6: bindValues invokes the Valuers of the value slots in strictly
\* ascending index order, each once, and rewrites a slot before it invokes
\* the next Valuer.
C6_AscendingOnce ==
    /\ \A j, k \in 1 .. Len(calls) : j < k => calls[j].idx < calls[k].idx
    /\ \A k \in Returned : Resolved(calls[k].idx)
    /\ pc = "bind" => CallIdx = {idx \in OddValuerIndices(orig) : idx < i}
    /\ pc = "done" => CallIdx = OddValuerIndices(orig)

C6_Witness ==
    /\ pc = "done"
    /\ Len(orig) = 6
    /\ At(orig, 1) = Timestamp
    /\ At(orig, 3) = Static
    /\ At(orig, 5) = DefaultTimestamp
    /\ calls = <<[idx |-> 1, at |-> 0], [idx |-> 5, at |-> 1]>>

\* C7: when the Valuer at index i panics, bindValues ends with that panic;
\* the Valuer slots below i hold their results, slot i and the slots after
\* it hold their original contents, and no Valuer after i was invoked.
C7_PanicPropagates ==
    /\ pc = "panicked" =>
         /\ failure = Invoke(At(orig, i), now).val
         /\ failure = PanicValue
         /\ Len(calls) > 0
         /\ calls[Len(calls)].idx = i
         /\ i % 2 = 1
         /\ \A idx \in OddValuerIndices(orig) : idx < i => Resolved(idx)
         /\ \A idx \in Indices(orig) : idx >= i => At(keyvals, idx) = At(orig, idx)
         /\ \A idx \in CallIdx : idx <= i
    /\ pc \in {"bind", "done"} => failure = NoFailure

C7_Witness ==
    /\ pc = "panicked"
    /\ i = 3
    /\ Len(orig) = 6
    /\ At(orig, 1) = Timestamp
    /\ At(keyvals, 1) = Instant(2)
    /\ At(orig, 5) = Timestamp
    /\ At(keyvals, 5) = Timestamp

\* C8: MarshalText returns a nil error and the same text as String, each
\* renderer returns the same text on every call, and rendering leaves the
\* TimeFormat value unchanged.
C8_RenderersAgree ==
    /\ []((strOut # Unset /\ txtOut # UnsetText) =>
            (txtOut.text = strOut /\ txtOut.err = "nil"))
    /\ [][tf' = tf]_vars
    /\ [][strOut # Unset => strOut' = strOut]_vars
    /\ [][txtOut # UnsetText => txtOut' = txtOut]_vars

C8_Witness ==
    /\ tf = TimeFormat(75, RFC3339Nano)
    /\ strOut = <<"0", "1", ":", "1", "5">>
    /\ txtOut = [text |-> <<"0", "1", ":", "1", "5">>, err |-> "nil"]

\* C9: after any sequence of Find calls, Find of a preloaded number returns
\* the record with that number and a nil error, Find of another number
\* returns nil with ErrUnknown, and the stored records are unchanged.
C9_FindExact ==
    /\ \A k \in 1 .. Len(finds) :
         LET f == finds[k] IN
           IF \E v \in SampleVoyages : v.Number = f.number
           THEN /\ f.ret.v \in SampleVoyages
                /\ f.ret.v.Number = f.number
                /\ f.ret.err = "nil"
           ELSE /\ f.ret.v = NilVoyage
                /\ f.ret.err = ErrUnknown
    /\ DOMAIN voyages = {v.Number : v \in SampleVoyages}
    /\ \A v \in SampleVoyages : voyages[v.Number] = v

C9_Witness ==
    /\ Len(finds) = 2
    /\ finds[1] = [number |-> "V999", ret |-> [v |-> NilVoyage, err |-> ErrUnknown]]
    /\ finds[2] = [number |-> "0301S", ret |-> [v |-> V0301S, err |-> "nil"]]

\* C10: a slot at an even index is never a value slot: a Valuer there is not
\* invoked or replaced by bindValues and does not make containsValuer
\* return true, whatever the length of the sequence.
C10_EvenSlotsIgnored ==
    /\ \A idx \in CallIdx : idx % 2 = 1
    /\ InCall =>
         \A idx \in EvenIndices(orig) :
             IsValuer(At(orig, idx)) => At(keyvals, idx) = At(orig, idx)
    /\ (cv.called /\ cv.ret) =>
         \E idx \in Indices(cv.arg) : idx % 2 = 1 /\ IsValuer(At(cv.arg, idx))

C10_Witness ==
    /\ pc = "done"
    /\ cv.called
    /\ ~cv.ret
    /\ Len(orig) = 5
    /\ At(orig, 1) = Timestamp
    /\ At(orig, 3) = Static
    /\ At(orig, 4) = Timestamp
    /\ At(keyvals, 4) = Timestamp
    /\ At(keyvals, 1) = Instant(0)
    /\ reads = 1

====
